---- MODULE Spec2Model ----
(***************************************************************************)
(* Kaleidoscope front end (src/Kaleidoscope.cpp): tokenizer, recursive-    *)
(* descent / precedence-climbing parser, lowering against the IR builder,  *)
(* and the top-level driver with its error recovery.                       *)
(*                                                                         *)
(* Characters are one-character strings, EOF is the string "EOF".  A       *)
(* std::string is a sequence of characters.  Tokens are either one of the  *)
(* names of enum Token or the raw character.                               *)
(***************************************************************************)
EXTENDS Integers, Sequences, FiniteSets, TLC

VARIABLES
    source,         \* the whole of standard input, as given (never changes)
    inp,            \* the part of standard input getchar() has not returned yet
    LastChar,       \* gettok's static lookahead character
    CurTok,         \* the parser's current token
    IdentifierStr,  \* filled in if tok_identifier
    NumVal,         \* filled in if tok_number
    TheModule,      \* the functions of the module, and its name counter
    NamedValues,    \* the lowering-time symbol table
    Builder,        \* the builder's insertion point (a function handle, 0 if none)
    out,            \* the messages LogError has printed, in order
    ntok,           \* number of getNextToken calls that have returned
    pc,             \* "start", "loop", "done" (main returned) or "exited" (exit(1))
    last            \* locals of the handler that ran last (FnAST, FnIR, ...)

vars == <<source, inp, LastChar, CurTok, IdentifierStr, NumVal, TheModule,
          NamedValues, Builder, out, ntok, pc, last>>

----------------------------------------------------------------------------
(* Bounds of the model *)

MaxLines == 2
MaxOps == 3
MaxChars == 4
MaxFairLen == 16

----------------------------------------------------------------------------
(* <cctype> on the characters the streams are made of *)

EOF == "EOF"

Lower == {"a","b","c","d","e","f","g","h","i","j","k","l","m",
          "n","o","p","q","r","s","t","u","v","w","x","y","z"}
Digit == {"0","1","2","3","4","5","6","7","8","9"}

isalpha(c) == c \in Lower
isdigit(c) == c \in Digit
isalnum(c) == isalpha(c) \/ isdigit(c)
isspace(c) == c \in {" ", "\n", "\r", "\t"}

----------------------------------------------------------------------------
(* Lexer *)

tok_eof == "tok_eof"
tok_def == "tok_def"
tok_extern == "tok_extern"
tok_identifier == "tok_identifier"
tok_number == "tok_number"

\* what CurTok reads as once exit(1) has ended the process: no code runs on it
tok_none == "tok_none"

kw_def == <<"d","e","f">>
kw_extern == <<"e","x","t","e","r","n">>

\* the value of an expression that the code evaluates once, where it stands,
\* and then works on: Only({K(v) : v \in {e}}) is K of the value of e
Only(S) == CHOOSE r \in S : TRUE

\* getchar(): the next character of standard input, EOF once it is exhausted
getchar(s) ==
    IF s.inp = <<>>
    THEN [s EXCEPT !.LastChar = EOF]
    ELSE [s EXCEPT !.LastChar = Head(s.inp), !.inp = Tail(s.inp)]

RECURSIVE SkipSpace(_)
\* while(isspace(LastChar)) LastChar = getchar();
SkipSpace(s) == IF isspace(s.LastChar) THEN Only({SkipSpace(v) : v \in {getchar(s)}}) ELSE s

RECURSIVE ReadIdentifier(_)
\* while(isalnum((LastChar = getchar()))) IdentifierStr += LastChar;
ReadIdentifier(s) ==
    LET While(t) ==
            IF isalnum(t.LastChar)
            THEN ReadIdentifier([t EXCEPT !.IdentifierStr = Append(@, t.LastChar)])
            ELSE t
    IN  Only({While(v) : v \in {getchar(s)}})

RECURSIVE ReadNumber(_, _, _, _)
\* do { ... } while(isdigit(LastChar) || LastChar == '.');
ReadNumber(s, NumStr, hasDecimal, decimalError) ==
    LET de == decimalError \/ (s.LastChar = "." /\ hasDecimal)
        hd == hasDecimal \/ s.LastChar = "."
        ns == Append(NumStr, s.LastChar)
        While(t) ==
            IF isdigit(t.LastChar) \/ t.LastChar = "."
            THEN ReadNumber(t, ns, hd, de)
            ELSE [st |-> t, NumStr |-> ns, decimalError |-> de]
    IN  Only({While(v) : v \in {getchar(s)}})

RECURSIVE TakeDigits(_)
TakeDigits(str) ==
    IF str # <<>> /\ isdigit(Head(str))
    THEN <<Head(str)>> \o TakeDigits(Tail(str))
    ELSE <<>>

RECURSIVE StripLeadingZeros(_)
StripLeadingZeros(ds) ==
    IF ds # <<>> /\ Head(ds) = "0" THEN StripLeadingZeros(Tail(ds)) ELSE ds

RECURSIVE StripTrailingZeros(_)
StripTrailingZeros(ds) ==
    IF ds # <<>> /\ ds[Len(ds)] = "0"
    THEN StripTrailingZeros(SubSeq(ds, 1, Len(ds) - 1))
    ELSE ds

\* strtod on [0-9.]+ : the value of the longest prefix digits [. digits],
\* as its integer digits without leading zeros and its fraction digits
\* without trailing zeros ("." and "" convert to 0)
strtod(NumStr) ==
    LET ip   == TakeDigits(NumStr)
        rest == SubSeq(NumStr, Len(ip) + 1, Len(NumStr))
        fp   == IF rest # <<>> /\ Head(rest) = "."
                THEN TakeDigits(Tail(rest)) ELSE <<>>
    IN  [int |-> StripLeadingZeros(ip), frac |-> StripTrailingZeros(fp)]

RECURSIVE SkipComment(_)
\* do LastChar = getchar(); while(LastChar != EOF && LastChar != '\n' && LastChar != '\r');
SkipComment(s) ==
    LET While(t) ==
            IF t.LastChar # EOF /\ t.LastChar # "\n" /\ t.LastChar # "\r"
            THEN SkipComment(t) ELSE t
    IN  Only({While(v) : v \in {getchar(s)}})

\* the number branch of gettok as the tutorial has it, without the exit
LexNumberNoExit(s) ==
    LET Number(r) ==
            [st |-> [r.st EXCEPT !.NumVal = strtod(r.NumStr)], tok |-> tok_number]
    IN  Only({Number(v) : v \in {ReadNumber(s, <<>>, FALSE, FALSE)}})

\* the number branch of gettok
LexNumber(s) ==
    LET Number(r) ==
            IF r.decimalError
            THEN [st |-> [r.st EXCEPT !.NumVal = strtod(r.NumStr), !.exited = TRUE],
                  tok |-> tok_none]
            ELSE [st |-> [r.st EXCEPT !.NumVal = strtod(r.NumStr)], tok |-> tok_number]
    IN  Only({Number(v) : v \in {ReadNumber(s, <<>>, FALSE, FALSE)}})

RECURSIVE gettok(_)
\* gettok - return the next token from standard input
gettok(s0) ==
    LET Identifier(t) ==
            [st |-> t,
             tok |-> IF t.IdentifierStr = kw_def THEN tok_def
                     ELSE IF t.IdentifierStr = kw_extern THEN tok_extern
                     ELSE tok_identifier]
        Other(s, c) ==
            IF s.LastChar = "#" /\ c.LastChar # EOF
            THEN gettok(c)
            ELSE IF c.LastChar = EOF
            THEN [st |-> c, tok |-> tok_eof]
            ELSE [st |-> getchar(c), tok |-> c.LastChar]
        Token(s) ==
            IF isalpha(s.LastChar)
            THEN Only({Identifier(v) : v \in
                         {ReadIdentifier([s EXCEPT !.IdentifierStr = <<s.LastChar>>])}})
            ELSE IF isdigit(s.LastChar) \/ s.LastChar = "."
            THEN LexNumber(s)
            ELSE Only({Other(s, c) : c \in {IF s.LastChar = "#" THEN SkipComment(s) ELSE s}})
    IN  Only({Token(v) : v \in {SkipSpace(s0)}})

\* getNextToken: CurTok = gettok().  Nothing runs once the process has exited.
getNextToken(s) ==
    LET Assign(r) ==
            IF r.st.exited
            THEN [r.st EXCEPT !.CurTok = tok_none]
            ELSE [r.st EXCEPT !.CurTok = r.tok, !.ntok = @ + 1]
    IN  IF s.exited THEN s ELSE Only({Assign(v) : v \in {gettok(s)}})

----------------------------------------------------------------------------
(* Abstract syntax tree *)

NumberExprAST(Val) == [kind |-> "Number", Val |-> Val]
VariableExprAST(Name) == [kind |-> "Variable", Name |-> Name]
BinaryExprAST(Op, LHS, RHS) == [kind |-> "Binary", Op |-> Op, LHS |-> LHS, RHS |-> RHS]
CallExprAST(Callee, Args) == [kind |-> "Call", Callee |-> Callee, Args |-> Args]
PrototypeAST(Name, Args) == [kind |-> "Prototype", Name |-> Name, Args |-> Args]
FunctionAST(Proto, Body) == [kind |-> "Function", Proto |-> Proto, Body |-> Body]

\* nullptr, as a unique_ptr to a node
nullAST == [kind |-> "null"]

----------------------------------------------------------------------------
(* Parser *)

\* main() installs the standard binary operators
BinopPrecedence == [c \in {"<", "+", "-", "*", "/"} |->
                      CASE c = "<" -> 10
                        [] c = "+" -> 20
                        [] c = "-" -> 20
                        [] c = "*" -> 40
                        [] c = "/" -> 40]

\* LogError: print the message, return nullptr
LogError(s, Str) == IF s.exited THEN s ELSE [s EXCEPT !.out = Append(@, Str)]

\* a parse result: the state it leaves and the node (nullAST on failure)
Parsed(s, node) == [st |-> s, null |-> FALSE, ast |-> node]
Failed(s) == [st |-> s, null |-> TRUE, ast |-> nullAST]
IsNull(r) == r.null

getTokPrecedence(s) ==
    IF s.CurTok \notin DOMAIN BinopPrecedence
    THEN -1
    ELSE IF BinopPrecedence[s.CurTok] <= 0 THEN -1 ELSE BinopPrecedence[s.CurTok]

RECURSIVE ParseExpression(_), ParsePrimary(_), ParseParenExpr(_),
          ParseIdentifierExpr(_), ParseArgs(_, _), ParseBinOpRHS(_, _, _),
          ParseBinOpRHSSamePrec(_, _, _)

\* numberexpr ::= number
ParseNumberExpr(s) == Parsed(getNextToken(s), NumberExprAST(s.NumVal))

\* parenexpr ::= '(' expression ')'
ParseParenExpr(s) ==
    LET Close(V) ==
            IF IsNull(V) THEN V
            ELSE IF V.st.CurTok # ")" THEN Failed(LogError(V.st, "expected ')'"))
            ELSE Parsed(getNextToken(V.st), V.ast)
    IN  Only({Close(v) : v \in {ParseExpression(getNextToken(s))}})

\* the while(true) loop of ParseIdentifierExpr over the argument list
ParseArgs(s, Args) ==
    LET Push(Arg) ==
            IF IsNull(Arg) THEN Failed(Arg.st)
            ELSE IF Arg.st.CurTok = ")" THEN Parsed(Arg.st, Append(Args, Arg.ast))
            ELSE IF Arg.st.CurTok # ","
            THEN Failed(LogError(Arg.st, "Expected ')' or ',' in argument list"))
            ELSE ParseArgs(getNextToken(Arg.st), Append(Args, Arg.ast))
    IN  Only({Push(v) : v \in {ParseExpression(s)}})

\* identifierexpr ::= identifier | identifier '(' expression* ')'
ParseIdentifierExpr(s) ==
    LET IdName == s.IdentifierStr
        Call(A) ==
            IF IsNull(A) THEN A
            ELSE Parsed(getNextToken(A.st), CallExprAST(IdName, A.ast))
        Args(s2) ==
            Only({Call(v) : v \in {IF s2.CurTok # ")" THEN ParseArgs(s2, <<>>) ELSE Parsed(s2, <<>>)}})
        Ref(s1) ==
            IF s1.CurTok # "("
            THEN Parsed(s1, VariableExprAST(IdName))
            ELSE Only({Args(v) : v \in {getNextToken(s1)}})
    IN  Only({Ref(v) : v \in {getNextToken(s)}})

\* primary ::= identifierexpr | numberexpr | parenexpr
ParsePrimary(s) ==
    CASE s.CurTok = tok_identifier -> ParseIdentifierExpr(s)
      [] s.CurTok = tok_number -> ParseNumberExpr(s)
      [] s.CurTok = "(" -> ParseParenExpr(s)
      [] OTHER -> Failed(LogError(s, "Unknown token when expecting an expression"))

\* ParseBinOpRHS with the pending operator resolved at TokPrec, not TokPrec+1
ParseBinOpRHSSamePrec(ExprPrec, LHS, s) ==
    LET TokPrec == getTokPrecedence(s)
        BinOp == s.CurTok
        Merge(R) ==
            IF IsNull(R) THEN R
            ELSE ParseBinOpRHSSamePrec(ExprPrec, BinaryExprAST(BinOp, LHS, R.ast), R.st)
        Pending(RHS) ==
            IF IsNull(RHS) THEN RHS
            ELSE Only({Merge(v) : v \in {IF TokPrec < getTokPrecedence(RHS.st)
                      THEN ParseBinOpRHSSamePrec(TokPrec, RHS.ast, RHS.st)
                      ELSE RHS}})
    IN  IF TokPrec < ExprPrec THEN Parsed(s, LHS)
        ELSE Only({Pending(v) : v \in {ParsePrimary(getNextToken(s))}})

\* binoprhs ::= ('+' primary)*
ParseBinOpRHS(ExprPrec, LHS, s) ==
    LET TokPrec == getTokPrecedence(s)
        BinOp == s.CurTok
        Merge(R) ==
            IF IsNull(R) THEN R
            ELSE ParseBinOpRHS(ExprPrec, BinaryExprAST(BinOp, LHS, R.ast), R.st)
        Pending(RHS) ==
            IF IsNull(RHS) THEN RHS
            ELSE Only({Merge(v) : v \in {IF TokPrec < getTokPrecedence(RHS.st)
                      THEN ParseBinOpRHS(TokPrec + 1, RHS.ast, RHS.st)
                      ELSE RHS}})
    IN  IF TokPrec < ExprPrec THEN Parsed(s, LHS)
        ELSE Only({Pending(v) : v \in {ParsePrimary(getNextToken(s))}})

\* expression ::= primary binoprhs
ParseExpression(s) ==
    LET Rest(LHS) == IF IsNull(LHS) THEN LHS ELSE ParseBinOpRHS(0, LHS.ast, LHS.st)
    IN  Only({Rest(v) : v \in {ParsePrimary(s)}})

\* ParsePrototype as the tutorial has it: the name as written
MangleNothing(FnName, FnType) == FnName

\* the switch(FnType) of ParsePrototype: the suffix the name is registered under
Mangle(FnName, FnType) ==
    CASE FnType = tok_def -> FnName \o <<"_","d","e","f">>
      [] FnType = tok_extern -> FnName \o <<"_","e","x","t">>
      [] OTHER -> FnName

RECURSIVE ReadArgNames(_, _)
\* while(getNextToken() == tok_identifier) ArgNames.push_back(IdentifierStr);
ReadArgNames(s, ArgNames) ==
    LET Push(t) ==
            IF t.CurTok = tok_identifier
            THEN ReadArgNames(t, Append(ArgNames, t.IdentifierStr))
            ELSE Parsed(t, ArgNames)
    IN  Only({Push(v) : v \in {getNextToken(s)}})

\* prototype ::= id '(' id* ')'
ParsePrototype(s) ==
    LET FnType == s.CurTok
        Close(FnName, A) ==
            IF A.st.CurTok # ")"
            THEN Failed(LogError(A.st, "Expected ')' in prototype"))
            ELSE Parsed(getNextToken(A.st), PrototypeAST(FnName, A.ast))
        Open(FnName, s2) ==
            IF s2.CurTok # "("
            THEN Failed(LogError(s2, "Expected '(' in protype"))
            ELSE Only({Close(FnName, A) : A \in {ReadArgNames(s2, <<>>)}})
        Name(s1) ==
            IF s1.CurTok # tok_identifier
            THEN Failed(LogError(s1, "Expected function name in prototype"))
            ELSE Only({Open(Mangle(s1.IdentifierStr, FnType), s2) : s2 \in {getNextToken(s1)}})
    IN  Only({Name(v) : v \in {getNextToken(s)}})

\* definition ::= 'def' prototype expression
ParseDefinition(s) ==
    LET Body(Proto, E) ==
            IF IsNull(E) THEN E
            ELSE Parsed(E.st, FunctionAST(Proto.ast, E.ast))
        Expr(Proto) ==
            IF IsNull(Proto) THEN Proto
            ELSE Only({Body(Proto, E) : E \in {ParseExpression(Proto.st)}})
    IN  Only({Expr(v) : v \in {ParsePrototype(s)}})

\* external ::= 'extern' prototype
ParseExtern(s) == ParsePrototype(s)

\* toplevelexpr ::= expression
ParseTopLevelExpr(s) ==
    LET Anonymous(E) ==
            IF IsNull(E) THEN E
            ELSE Parsed(E.st, FunctionAST(PrototypeAST(<<>>, <<>>), E.ast))
    IN  Only({Anonymous(v) : v \in {ParseExpression(s)}})

----------------------------------------------------------------------------
(* The IR builder, as far as the lowering uses it.  A Function* is the id  *)
(* of a function of the module, 0 is nullptr.  A Value* is a constant, an  *)
(* argument of a function or the result of an instruction of its block.    *)

nullV == [k |-> "null"]
ConstantFP(Val) == [k |-> "const", Val |-> Val]
Argument(fn, i) == [k |-> "arg", fn |-> fn, idx |-> i]
Instruction(fn, i) == [k |-> "inst", fn |-> fn, idx |-> i]

emptyMap == [n \in {} |-> nullV]

RECURSIVE DecimalStr(_)
DecimalStr(n) ==
    LET d == <<"0","1","2","3","4","5","6","7","8","9">>[(n % 10) + 1]
    IN  IF n < 10 THEN <<d>> ELSE Append(DecimalStr(n \div 10), d)

RECURSIVE makeUniqueName(_, _, _, _)
\* ValueSymbolTable::makeUniqueName: Base, Sep and ++LastUnique until unused
makeUniqueName(Taken, Base, Sep, LastUnique) ==
    LET cand == Base \o Sep \o DecimalStr(LastUnique + 1)
    IN  IF cand \in Taken
        THEN makeUniqueName(Taken, Base, Sep, LastUnique + 1)
        ELSE [Name |-> cand, LastUnique |-> LastUnique + 1]

\* the name a value gets in a symbol table that holds the names Taken
setName(Taken, Name, Sep, LastUnique) ==
    IF Name \in Taken
    THEN makeUniqueName(Taken, Name, Sep, LastUnique)
    ELSE [Name |-> Name, LastUnique |-> LastUnique]

FunctionNames(M) == {M.funcs[i].Name : i \in 1..Len(M.funcs)} \ {<<>>}

\* Module::getFunction: the id of the function of that name, 0 if there is none
getFunction(M, Name) ==
    IF Name # <<>> /\ \E i \in 1..Len(M.funcs) : M.funcs[i].Name = Name
    THEN M.funcs[CHOOSE i \in 1..Len(M.funcs) : M.funcs[i].Name = Name].id
    ELSE 0

FnIndex(M, id) == CHOOSE i \in 1..Len(M.funcs) : M.funcs[i].id = id
FnOf(M, id) == M.funcs[FnIndex(M, id)]

\* Function::eraseFromParent
eraseFromParent(M, id) ==
    [M EXCEPT !.funcs = SubSeq(@, 1, FnIndex(M, id) - 1)
                        \o SubSeq(@, FnIndex(M, id) + 1, Len(@))]

\* Builder->Create...: append the instruction at the insertion point
Insert(s, inst) ==
    LET i == FnIndex(s.TheModule, s.Builder)
        b == Len(s.TheModule.funcs[i].Blocks)
        n == Len(s.TheModule.funcs[i].Blocks[b]) + 1
    IN  [st |-> [s EXCEPT !.TheModule.funcs[i].Blocks[b] = Append(@, inst)],
         val |-> Instruction(s.Builder, n)]

----------------------------------------------------------------------------
(* Code generation *)

LogErrorV(s, Str) == [st |-> LogError(s, Str), val |-> nullV]

RECURSIVE codegen(_, _), CallArgsCodegen(_, _, _, _)

NumberExprCodegen(s, e) == [st |-> s, val |-> ConstantFP(e.Val)]

\* Value* V = NamedValues[Name]: std::map::operator[] adds the key when absent
VariableExprCodegen(s, e) ==
    LET nv == IF e.Name \in DOMAIN s.NamedValues
              THEN s.NamedValues
              ELSE s.NamedValues @@ (e.Name :> nullV)
        s1 == [s EXCEPT !.NamedValues = nv]
        V  == nv[e.Name]
    IN  IF V.k = "null"
        THEN [st |-> LogError(s1, "Unknown variable name"), val |-> V]
        ELSE [st |-> s1, val |-> V]

\* BinaryExprAST::codegen returning as soon as the left operand has failed
BinaryExprCodegenShortCircuit(s, e) ==
    LET UIToFP(c) == Insert(c.st, [op |-> "uitofp", L |-> c.val, R |-> nullV])
        Create(L, R) ==
            IF R.val.k = "null"
            THEN [st |-> R.st, val |-> nullV]
            ELSE CASE e.Op = "+" -> Insert(R.st, [op |-> "fadd", L |-> L.val, R |-> R.val])
                   [] e.Op = "-" -> Insert(R.st, [op |-> "fsub", L |-> L.val, R |-> R.val])
                   [] e.Op = "*" -> Insert(R.st, [op |-> "fmul", L |-> L.val, R |-> R.val])
                   [] e.Op = "/" -> Insert(R.st, [op |-> "fdiv", L |-> L.val, R |-> R.val])
                   [] e.Op = "<" ->
                        Only({UIToFP(v) : v \in
                                {Insert(R.st, [op |-> "fcmp ult", L |-> L.val, R |-> R.val])}})
                   [] OTHER -> LogErrorV(R.st, "invalid binary operator")
        Right(L) == IF L.val.k = "null" THEN [st |-> L.st, val |-> nullV]
                    ELSE Only({Create(L, R) : R \in {codegen(L.st, e.RHS)}})
    IN  Only({Right(v) : v \in {codegen(s, e.LHS)}})

\* Value *L = LHS->codegen(); Value *R = RHS->codegen(); if(!L || !R) return nullptr;
BinaryExprCodegen(s, e) ==
    LET UIToFP(c) == Insert(c.st, [op |-> "uitofp", L |-> c.val, R |-> nullV])
        Create(L, R) ==
            IF L.val.k = "null" \/ R.val.k = "null"
            THEN [st |-> R.st, val |-> nullV]
            ELSE CASE e.Op = "+" -> Insert(R.st, [op |-> "fadd", L |-> L.val, R |-> R.val])
                   [] e.Op = "-" -> Insert(R.st, [op |-> "fsub", L |-> L.val, R |-> R.val])
                   [] e.Op = "*" -> Insert(R.st, [op |-> "fmul", L |-> L.val, R |-> R.val])
                   [] e.Op = "/" -> Insert(R.st, [op |-> "fdiv", L |-> L.val, R |-> R.val])
                   [] e.Op = "<" ->
                        Only({UIToFP(v) : v \in
                                {Insert(R.st, [op |-> "fcmp ult", L |-> L.val, R |-> R.val])}})
                   [] OTHER -> LogErrorV(R.st, "invalid binary operator")
        Right(L) == Only({Create(L, R) : R \in {codegen(L.st, e.RHS)}})
    IN  Only({Right(v) : v \in {codegen(s, e.LHS)}})

\* for(i = 0; i != e; ++i) { ArgsV.push_back(Args[i]->codegen()); if(!ArgsV.back()) return nullptr; }
CallArgsCodegen(s, Args, i, ArgsV) ==
    LET Push(A) ==
            IF A.val.k = "null"
            THEN [st |-> A.st, null |-> TRUE, vals |-> ArgsV]
            ELSE CallArgsCodegen(A.st, Args, i + 1, Append(ArgsV, A.val))
    IN  IF i > Len(Args) THEN [st |-> s, null |-> FALSE, vals |-> ArgsV]
        ELSE Only({Push(v) : v \in {codegen(s, Args[i])}})

\* CallExprAST::codegen looking the callee up under the names ParsePrototype
\* registers: Callee_def, then Callee_ext
CallExprCodegenMangled(s, e) ==
    LET CreateCall(CalleeF, A) ==
            IF A.null THEN [st |-> A.st, val |-> nullV]
            ELSE Insert(A.st, [op |-> "call", L |-> CalleeF, R |-> A.vals])
        Call(CalleeF) ==
            IF CalleeF = 0
            THEN LogErrorV(s, "Unknown function referenced")
            ELSE IF Len(FnOf(s.TheModule, CalleeF).Args) # Len(e.Args)
            THEN LogErrorV(s, "Incorrect # arguments passed")
            ELSE Only({CreateCall(CalleeF, A) : A \in {CallArgsCodegen(s, e.Args, 1, <<>>)}})
    IN  Only({Call(v) : v \in {IF getFunction(s.TheModule, e.Callee \o <<"_","d","e","f">>) # 0
             THEN getFunction(s.TheModule, e.Callee \o <<"_","d","e","f">>)
             ELSE getFunction(s.TheModule, e.Callee \o <<"_","e","x","t">>)}})

\* CallExprAST::codegen
CallExprCodegen(s, e) ==
    LET CreateCall(CalleeF, A) ==
            IF A.null THEN [st |-> A.st, val |-> nullV]
            ELSE Insert(A.st, [op |-> "call", L |-> CalleeF, R |-> A.vals])
        Call(CalleeF) ==
            IF CalleeF = 0
            THEN LogErrorV(s, "Unknown function referenced")
            ELSE IF Len(FnOf(s.TheModule, CalleeF).Args) # Len(e.Args)
            THEN LogErrorV(s, "Incorrect # arguments passed")
            ELSE Only({CreateCall(CalleeF, A) : A \in {CallArgsCodegen(s, e.Args, 1, <<>>)}})
    IN  Only({Call(v) : v \in {getFunction(s.TheModule, e.Callee)}})

\* ExprAST::codegen, by node kind
codegen(s, e) ==
    CASE e.kind = "Number" -> NumberExprCodegen(s, e)
      [] e.kind = "Variable" -> VariableExprCodegen(s, e)
      [] e.kind = "Binary" -> BinaryExprCodegen(s, e)
      [] e.kind = "Call" -> CallExprCodegen(s, e)

RECURSIVE SetArgNames(_, _, _, _)
\* for(auto &Arg : F->args()) Arg.setName(Args[Idx++]);
SetArgNames(Args, Idx, Named, LastUnique) ==
    LET Push(u) == SetArgNames(Args, Idx + 1, Append(Named, u.Name), u.LastUnique)
    IN  IF Idx > Len(Args) THEN Named
        ELSE Only({Push(v) : v \in
                     {setName({Named[j] : j \in 1..Len(Named)}, Args[Idx], <<>>, LastUnique)}})

\* PrototypeAST::codegen: Function::Create under Name (made unique in the
\* module's symbol table; the empty name is not entered), arguments named
PrototypeCodegen(s, Proto) ==
    LET M  == s.TheModule
        Create(u) ==
            [st |-> [s EXCEPT !.TheModule =
                        [funcs |-> Append(M.funcs,
                                       [id |-> M.nextId, Name |-> u.Name,
                                        Args |-> SetArgNames(Proto.Args, 1, <<>>, 0),
                                        Blocks |-> <<>>]),
                         LastUnique |-> u.LastUnique,
                         nextId |-> M.nextId + 1]],
             fn |-> M.nextId]
    IN  Only({Create(v) : v \in {IF Proto.Name = <<>>
             THEN [Name |-> <<>>, LastUnique |-> M.LastUnique]
             ELSE setName(FunctionNames(M), Proto.Name, <<".">>, M.LastUnique)}})

\* FunctionAST::codegen without the test of TheFunction->empty(): a second
\* definition gets a further block in the function that is already there
FunctionCodegenNoEmptyTest(s, Fn) ==
    LET NamedArgs(TheFunction, args) ==
            [n \in {args[j] : j \in 1..Len(args)} |->
                Argument(TheFunction, CHOOSE j \in 1..Len(args) : args[j] = n)]
        Finish(TheFunction, RetVal) ==
            IF RetVal.val.k # "null"
            THEN [st |-> Insert(RetVal.st, [op |-> "ret", L |-> RetVal.val, R |-> nullV]).st,
                  fn |-> TheFunction]
            ELSE [st |-> [RetVal.st EXCEPT !.TheModule = eraseFromParent(@, TheFunction)],
                  fn |-> 0]
        Body(P, i) ==
            Only({Only({Finish(P.fn, RetVal) : RetVal \in {codegen(s1, Fn.Body)}})
                    : s1 \in {[P.st EXCEPT
                                  !.TheModule.funcs[i].Blocks = Append(@, <<>>),
                                  !.Builder = P.fn,
                                  !.NamedValues =
                                      NamedArgs(P.fn, P.st.TheModule.funcs[i].Args)]}})
        Found(P) == Only({Body(P, i) : i \in {FnIndex(P.st.TheModule, P.fn)}})
        Lookup(found) ==
            Only({Found(v) : v \in {IF found = 0 THEN PrototypeCodegen(s, Fn.Proto)
                                     ELSE [st |-> s, fn |-> found]}})
    IN  Only({Lookup(v) : v \in {getFunction(s.TheModule, Fn.Proto.Name)}})

\* FunctionAST::codegen without the eraseFromParent of a function whose body
\* failed to lower
FunctionCodegenNoErase(s, Fn) ==
    LET NamedArgs(TheFunction, args) ==
            [n \in {args[j] : j \in 1..Len(args)} |->
                Argument(TheFunction, CHOOSE j \in 1..Len(args) : args[j] = n)]
        Finish(TheFunction, RetVal) ==
            IF RetVal.val.k # "null"
            THEN [st |-> Insert(RetVal.st, [op |-> "ret", L |-> RetVal.val, R |-> nullV]).st,
                  fn |-> TheFunction]
            ELSE [st |-> RetVal.st, fn |-> 0]
        Body(P, i) ==
            IF P.st.TheModule.funcs[i].Blocks # <<>>
            THEN [st |-> LogError(P.st, "Function cannot be redefined."), fn |-> 0]
            ELSE Only({Only({Finish(P.fn, RetVal) : RetVal \in {codegen(s1, Fn.Body)}})
                    : s1 \in {[P.st EXCEPT
                                  !.TheModule.funcs[i].Blocks = <<<<>>>>,
                                  !.Builder = P.fn,
                                  !.NamedValues =
                                      NamedArgs(P.fn, P.st.TheModule.funcs[i].Args)]}})
        Found(P) == Only({Body(P, i) : i \in {FnIndex(P.st.TheModule, P.fn)}})
        Lookup(found) ==
            Only({Found(v) : v \in {IF found = 0 THEN PrototypeCodegen(s, Fn.Proto)
                                     ELSE [st |-> s, fn |-> found]}})
    IN  Only({Lookup(v) : v \in {getFunction(s.TheModule, Fn.Proto.Name)}})

\* FunctionAST::codegen
FunctionCodegen(s, Fn) ==
    LET NamedArgs(TheFunction, args) ==
            [n \in {args[j] : j \in 1..Len(args)} |->
                Argument(TheFunction, CHOOSE j \in 1..Len(args) : args[j] = n)]
        Finish(TheFunction, RetVal) ==
            IF RetVal.val.k # "null"
            THEN [st |-> Insert(RetVal.st, [op |-> "ret", L |-> RetVal.val, R |-> nullV]).st,
                  fn |-> TheFunction]
            ELSE [st |-> [RetVal.st EXCEPT !.TheModule = eraseFromParent(@, TheFunction)],
                  fn |-> 0]
        Body(P, i) ==
            IF P.st.TheModule.funcs[i].Blocks # <<>>
            THEN [st |-> LogError(P.st, "Function cannot be redefined."), fn |-> 0]
            ELSE Only({Only({Finish(P.fn, RetVal) : RetVal \in {codegen(s1, Fn.Body)}})
                    : s1 \in {[P.st EXCEPT
                                  !.TheModule.funcs[i].Blocks = <<<<>>>>,
                                  !.Builder = P.fn,
                                  !.NamedValues =
                                      NamedArgs(P.fn, P.st.TheModule.funcs[i].Args)]}})
        Found(P) == Only({Body(P, i) : i \in {FnIndex(P.st.TheModule, P.fn)}})
        Lookup(found) ==
            Only({Found(v) : v \in {IF found = 0 THEN PrototypeCodegen(s, Fn.Proto)
                                     ELSE [st |-> s, fn |-> found]}})
    IN  Only({Lookup(v) : v \in {getFunction(s.TheModule, Fn.Proto.Name)}})

----------------------------------------------------------------------------
(* Top-level parsing: the handlers.  Each yields the state it leaves and    *)
(* its locals: parse is the state when the Parse... call returned, FnAST    *)
(* the node it returned, FnIR the function the lowering returned.           *)

Handled(s, P, FnIR) == [st |-> s, parse |-> P.st, FnAST |-> P.ast, FnIR |-> FnIR]

\* HandleDefinition without the getNextToken of its else branch
HandleDefinitionNoSkip(s) ==
    LET Lowered(FnAST, FnIR) == Handled(FnIR.st, FnAST, FnIR.fn)
        Handle(FnAST) ==
            IF FnAST.st.exited THEN Handled(FnAST.st, Failed(FnAST.st), 0)
            ELSE IF ~IsNull(FnAST)
            THEN Only({Lowered(FnAST, FnIR) : FnIR \in {FunctionCodegen(FnAST.st, FnAST.ast)}})
            ELSE Handled(FnAST.st, FnAST, 0)
    IN  Only({Handle(v) : v \in {ParseDefinition(s)}})

HandleDefinition(s) ==
    LET Lowered(FnAST, FnIR) == Handled(FnIR.st, FnAST, FnIR.fn)
        Handle(FnAST) ==
            IF FnAST.st.exited THEN Handled(FnAST.st, Failed(FnAST.st), 0)
            ELSE IF ~IsNull(FnAST)
            THEN Only({Lowered(FnAST, FnIR) : FnIR \in {FunctionCodegen(FnAST.st, FnAST.ast)}})
            ELSE Handled(getNextToken(FnAST.st), FnAST, 0)
    IN  Only({Handle(v) : v \in {ParseDefinition(s)}})

HandleExtern(s) ==
    LET Lowered(ProtoAST, FnIR) == Handled(FnIR.st, ProtoAST, FnIR.fn)
        Handle(ProtoAST) ==
            IF ProtoAST.st.exited THEN Handled(ProtoAST.st, Failed(ProtoAST.st), 0)
            ELSE IF ~IsNull(ProtoAST)
            THEN Only({Lowered(ProtoAST, FnIR) : FnIR \in {PrototypeCodegen(ProtoAST.st, ProtoAST.ast)}})
            ELSE Handled(getNextToken(ProtoAST.st), ProtoAST, 0)
    IN  Only({Handle(v) : v \in {ParseExtern(s)}})

\* HandleTopLevelExpression with the recovery skip taken whenever no function
\* came out, also when it was the lowering that failed
HandleTopLevelExpressionSkipAlways(s) ==
    LET Lowered(FnAST, FnIR) ==
            IF FnIR.fn # 0
            THEN Handled([FnIR.st EXCEPT !.TheModule = eraseFromParent(@, FnIR.fn)],
                         FnAST, FnIR.fn)
            ELSE Handled(getNextToken(FnIR.st), FnAST, 0)
        Handle(FnAST) ==
            IF FnAST.st.exited THEN Handled(FnAST.st, Failed(FnAST.st), 0)
            ELSE IF ~IsNull(FnAST)
            THEN Only({Lowered(FnAST, FnIR) : FnIR \in {FunctionCodegen(FnAST.st, FnAST.ast)}})
            ELSE Handled(getNextToken(FnAST.st), FnAST, 0)
    IN  Only({Handle(v) : v \in {ParseTopLevelExpr(s)}})

\* HandleTopLevelExpression with two tokens discarded for recovery
HandleTopLevelExpressionSkipTwo(s) ==
    LET Lowered(FnAST, FnIR) ==
            IF FnIR.fn # 0
            THEN Handled([FnIR.st EXCEPT !.TheModule = eraseFromParent(@, FnIR.fn)],
                         FnAST, FnIR.fn)
            ELSE Handled(FnIR.st, FnAST, 0)
        Handle(FnAST) ==
            IF FnAST.st.exited THEN Handled(FnAST.st, Failed(FnAST.st), 0)
            ELSE IF ~IsNull(FnAST)
            THEN Only({Lowered(FnAST, FnIR) : FnIR \in {FunctionCodegen(FnAST.st, FnAST.ast)}})
            ELSE Handled(getNextToken(getNextToken(FnAST.st)), FnAST, 0)
    IN  Only({Handle(v) : v \in {ParseTopLevelExpr(s)}})

\* HandleTopLevelExpression without the getNextToken of its else branch
HandleTopLevelExpressionNoSkip(s) ==
    LET Lowered(FnAST, FnIR) ==
            IF FnIR.fn # 0
            THEN Handled([FnIR.st EXCEPT !.TheModule = eraseFromParent(@, FnIR.fn)],
                         FnAST, FnIR.fn)
            ELSE Handled(FnIR.st, FnAST, 0)
        Handle(FnAST) ==
            IF FnAST.st.exited THEN Handled(FnAST.st, Failed(FnAST.st), 0)
            ELSE IF ~IsNull(FnAST)
            THEN Only({Lowered(FnAST, FnIR) : FnIR \in {FunctionCodegen(FnAST.st, FnAST.ast)}})
            ELSE Handled(FnAST.st, FnAST, 0)
    IN  Only({Handle(v) : v \in {ParseTopLevelExpr(s)}})

HandleTopLevelExpression(s) ==
    LET Lowered(FnAST, FnIR) ==
            IF FnIR.fn # 0
            THEN Handled([FnIR.st EXCEPT !.TheModule = eraseFromParent(@, FnIR.fn)],
                         FnAST, FnIR.fn)
            ELSE Handled(FnIR.st, FnAST, 0)
        Handle(FnAST) ==
            IF FnAST.st.exited THEN Handled(FnAST.st, Failed(FnAST.st), 0)
            ELSE IF ~IsNull(FnAST)
            THEN Only({Lowered(FnAST, FnIR) : FnIR \in {FunctionCodegen(FnAST.st, FnAST.ast)}})
            ELSE Handled(getNextToken(FnAST.st), FnAST, 0)
    IN  Only({Handle(v) : v \in {ParseTopLevelExpr(s)}})

----------------------------------------------------------------------------
(* The process *)

\* the program's variables as the record the operators above work on
State == [inp |-> inp, LastChar |-> LastChar, CurTok |-> CurTok,
          IdentifierStr |-> IdentifierStr, NumVal |-> NumVal,
          TheModule |-> TheModule, NamedValues |-> NamedValues,
          Builder |-> Builder, out |-> out, ntok |-> ntok, exited |-> FALSE]

\* the tokenizer's part of a state
Lexer(s) == [inp |-> s.inp, LastChar |-> s.LastChar, CurTok |-> s.CurTok]

\* InitializeModule: a new, empty module
NewModule == [funcs |-> <<>>, LastUnique |-> 0, nextId |-> 1]

\* the state s becomes the program's state; exit(1) ends the process
Becomes(s, next) ==
    /\ inp' = s.inp
    /\ LastChar' = s.LastChar
    /\ CurTok' = s.CurTok
    /\ IdentifierStr' = s.IdentifierStr
    /\ NumVal' = s.NumVal
    /\ TheModule' = s.TheModule
    /\ NamedValues' = s.NamedValues
    /\ Builder' = s.Builder
    /\ out' = s.out
    /\ ntok' = s.ntok
    /\ pc' = IF s.exited THEN "exited" ELSE next
    /\ UNCHANGED source

\* what the handler that just ran leaves in last
Ran(name, h) ==
    last' = [handler |-> name,
             parsed  |-> h.FnAST.kind # "null",
             FnAST   |-> h.FnAST,
             FnIR    |-> h.FnIR,
             skipped |-> h.st.ntok - h.parse.ntok,
             tokens  |-> h.st.ntok - ntok,
             errs    |-> Len(h.st.out) - Len(out),
             at      |-> Lexer(State),
             parse   |-> Lexer(h.parse),
             before  |-> TheModule,
             NamedValuesBefore |-> NamedValues]

NoHandler(s) == [st |-> s, parse |-> s, FnAST |-> nullAST, FnIR |-> 0]

\* the handler's outcome h becomes the program's state, back in the loop
Loop(name, h) == Becomes(h.st, "loop") /\ Ran(name, h)

\* main() up to the call of MainLoop
Main ==
    /\ pc = "start"
    /\ LET Primed(s) == /\ Becomes([s EXCEPT !.TheModule = NewModule], "loop")
                         /\ Ran("main", NoHandler(s))
       IN  \E s \in {getNextToken(State)} : Primed(s)

\* case tok_eof: return; main prints the module and returns 0
Return ==
    /\ pc = "loop"
    /\ CurTok = tok_eof
    /\ Becomes(State, "done")
    /\ Ran("return", NoHandler(State))

\* case ';': ignore top-level semicolons
Semicolon ==
    /\ pc = "loop"
    /\ CurTok = ";"
    /\ LET Eaten(s) == /\ Becomes(s, "loop")
                        /\ Ran("semicolon", [NoHandler(s) EXCEPT !.parse = State])
       IN  \E s \in {getNextToken(State)} : Eaten(s)

Definition ==
    /\ pc = "loop"
    /\ CurTok = tok_def
    /\ \E h \in {HandleDefinition(State)} : Loop("HandleDefinition", h)

Extern ==
    /\ pc = "loop"
    /\ CurTok = tok_extern
    /\ \E h \in {HandleExtern(State)} : Loop("HandleExtern", h)

TopLevelExpression ==
    /\ pc = "loop"
    /\ CurTok \notin {tok_eof, ";", tok_def, tok_extern}
    /\ \E h \in {HandleTopLevelExpression(State)} : Loop("HandleTopLevelExpression", h)

\* MainLoop: top ::= definition | external | expression | ';'
MainLoop == Return \/ Semicolon \/ Definition \/ Extern \/ TopLevelExpression

Next == Main \/ MainLoop

----------------------------------------------------------------------------
(* Standard input *)

RECURSIVE Flatten(_)
Flatten(ss) == IF ss = <<>> THEN <<>> ELSE Head(ss) \o Flatten(Tail(ss))

SeqsUpTo(S, n) == UNION {[1..k -> S] : k \in 0..n}

\* the lines the streams of top-level constructs are made of
Lines == {
    \* definitions whose body is a binary operation with a failing operand
    <<"d","e","f"," ","f","(","x",")"," ","y","+","g","(",")">>,  \* def f(x) y+g()
    <<"d","e","f"," ","f","(","x",")"," ","x","+","y">>,  \* def f(x) x+y
    <<"d","e","f"," ","f","(","x",")"," ","g","(",")","+","x">>,  \* def f(x) g()+x
    \* definitions
    <<"d","e","f"," ","f","(","x",")"," ","x">>,  \* def f(x) x
    <<"d","e","f"," ","f","(","x",")"," ","x","+","1">>,  \* def f(x) x+1
    <<"d","e","f"," ","f","(","x"," ","y",")"," ","x">>,  \* def f(x y) x
    <<"d","e","f"," ","f","(","x"," ","y",")"," ","x","*","y">>,  \* def f(x y) x*y
    <<"d","e","f"," ","f","(",")"," ","1">>,  \* def f() 1
    <<"d","e","f"," ","f","(","x",")"," ","y","+","z">>,  \* def f(x) y+z
    <<"d","e","f"," ","g","(","x",")"," ","f","(","x",")">>,  \* def g(x) f(x)
    <<"d","e","f"," ","f","(","x"," ","x",")"," ","x">>,  \* def f(x x) x
    <<"d","e","f"," ","f","(","x",")"," ","x","<","1","+","x">>,  \* def f(x) x<1+x
    \* externs
    <<"e","x","t","e","r","n"," ","f","(","x",")">>,  \* extern f(x)
    <<"e","x","t","e","r","n"," ","f","(","x"," ","y",")">>,  \* extern f(x y)
    <<"e","x","t","e","r","n"," ","g","(",")">>,  \* extern g()
    \* top-level expressions
    <<"f","(","1",",","2",")">>,  \* f(1,2)
    <<"f","(","1",")">>,  \* f(1)
    <<"1","+","2","*","3">>,  \* 1+2*3
    <<"x">>,  \* x
    <<"g","(",")">>,  \* g()
    \* constructs that do not parse
    <<"d","e","f"," ","1"," ","2">>,  \* def 1 2
    <<"d","e","f"," ","f"," ","x">>,  \* def f x
    <<"e","x","t","e","r","n"," ","f","(","x">>,  \* extern f(x
    <<"f","(","1">>,  \* f(1
    <<"e","x","t","e","r","n"," ","f"," ","x">>,  \* extern f x
    <<"f","(","x">>,  \* f(x
    <<")">>,  \* )
    <<"(","1">>,  \* (1
    <<"1","+">>,  \* 1+
    \* a semicolon, a comment, an unknown character, a malformed number
    <<";">>,  \* ;
    <<"#"," ","c">>,  \* # c
    <<"@">>,  \* @
    <<"1",".","2",".","3">>   \* 1.2.3
}

\* up to MaxLines lines, each ended by a newline
LineSources ==
    {Flatten([i \in 1..Len(ls) |-> ls[i] \o <<"\n">>]) : ls \in SeqsUpTo(Lines, MaxLines)}

\* primary (op primary)* with up to MaxOps operators: the operands are the
\* numbers 1, 2, ... or the variables a, b, ... in this order
Operators == {"<", "+", "-", "*", "/"}
Operand(kind, i) ==
    IF kind = "number" THEN DecimalStr(i)
    ELSE <<(<<"a","b","c","d","e","f","g","h">>)[i]>>
ExprText(kind, ops) ==
    Flatten([i \in 1..(2 * Len(ops) + 1) |->
                IF i % 2 = 1 THEN Operand(kind, (i + 1) \div 2) ELSE <<ops[i \div 2]>>])
ExprSources ==
    {ExprText(kind, ops) : kind \in {"number", "variable"},
                           ops \in SeqsUpTo(Operators, MaxOps)}

\* every string of up to MaxChars characters of a small alphabet
Alphabet == {"1", ".", "a", "#", "\n", " ", "+"}
CharSources == SeqsUpTo(Alphabet, MaxChars)

Sources == LineSources \cup ExprSources \cup CharSources

\* the value of CurTok before the first getNextToken
NUL == "NUL"

\* the state of a process started on the input text
Started(text) ==
    [inp |-> text, LastChar |-> " ", CurTok |-> NUL, IdentifierStr |-> <<>>,
     NumVal |-> strtod(<<>>), TheModule |-> NewModule, NamedValues |-> emptyMap,
     Builder |-> 0, out |-> <<>>, ntok |-> 0, exited |-> FALSE]

Init ==
    /\ source \in Sources
    /\ inp = source
    /\ LastChar = " "
    /\ CurTok = NUL
    /\ IdentifierStr = <<>>
    /\ NumVal = strtod(<<>>)
    /\ TheModule = NewModule
    /\ NamedValues = emptyMap
    /\ Builder = 0
    /\ out = <<>>
    /\ ntok = 0
    /\ pc = "start"
    /\ last = [handler |-> "none", parsed |-> FALSE, FnAST |-> nullAST, FnIR |-> 0,
               skipped |-> 0, tokens |-> 0, errs |-> 0,
               at |-> [inp |-> source, LastChar |-> " ", CurTok |-> NUL],
               parse |-> [inp |-> source, LastChar |-> " ", CurTok |-> NUL],
               before |-> NewModule, NamedValuesBefore |-> emptyMap]

Spec == Init /\ [][Next]_vars

\* the process started on an input of at most MaxFairLen characters
FairInit == Init /\ Len(source) <= MaxFairLen

\* the process is one thread that runs until main returns or exit is called
FairSpec == FairInit /\ [][Next]_vars /\ WF_vars(Next)

----------------------------------------------------------------------------
(* What the handler that ran last did *)

Handlers == {"HandleDefinition", "HandleExtern", "HandleTopLevelExpression"}

Funcs(M) == {M.funcs[i] : i \in 1..Len(M.funcs)}
HasBody(F) == F.Blocks # <<>>

\* the messages the last handler printed
Messages == SubSeq(out, Len(out) - last.errs + 1, Len(out))
Printed(Str) == \E i \in 1..Len(Messages) : Messages[i] = Str

EndsWith(str, suffix) ==
    /\ Len(str) >= Len(suffix)
    /\ SubSeq(str, Len(str) - Len(suffix) + 1, Len(str)) = suffix

suffix_def == <<"_","d","e","f">>
suffix_ext == <<"_","e","x","t">>

\* the last handler parsed a definition or an anonymous expression and
\* handed it to FunctionAST::codegen
LoweredFunction ==
    /\ last.handler \in {"HandleDefinition", "HandleTopLevelExpression"}
    /\ last.parsed

\* ... whose name was that of a function that had a body already
Redefinition ==
    /\ LoweredFunction
    /\ \E F \in Funcs(last.before) :
          F.Name # <<>> /\ F.Name = last.FnAST.Proto.Name /\ HasBody(F)

\* ... whose body was lowered
BodyLowered == LoweredFunction /\ ~Redefinition

----------------------------------------------------------------------------
(* C1 *)

\* the parameter counts under which extern or def declared the base name
DeclaredArities(M, base) ==
    {Len(F.Args) : F \in {G \in Funcs(M) :
                            G.Name \in {base \o suffix_def, base \o suffix_ext}}}

\* a construct whose body is a call of a declared name with another number of
\* arguments than declared
MismatchedCall ==
    /\ BodyLowered
    /\ last.FnAST.Body.kind = "Call"
    /\ DeclaredArities(last.before, last.FnAST.Body.Callee) # {}
    /\ Len(last.FnAST.Body.Args) \notin DeclaredArities(last.before, last.FnAST.Body.Callee)

\* C1: a call that passes m arguments to a name that extern or def declared
\* with n # m parameters fails with "Incorrect # arguments passed", with no
\* other error, and no function comes out of the lowering.
C1_ArityMismatchReported ==
    MismatchedCall =>
        /\ Messages = <<"Incorrect # arguments passed">>
        /\ last.FnIR = 0

----------------------------------------------------------------------------
(* C2 *)

\* C2: a definition under the name of a function that has a body fails with
\* "Function cannot be redefined." and leaves the module as it was.
C2_RedefinitionChangesNothing ==
    (last.handler = "HandleDefinition" /\ Redefinition) =>
        /\ Messages = <<"Function cannot be redefined.">>
        /\ last.FnIR = 0
        /\ TheModule = last.before

\* a second definition of f, with other parameters and another body than the
\* first, has been refused
C2_Witness ==
    /\ last.handler = "HandleDefinition"
    /\ Redefinition
    /\ pc = "loop"
    /\ \E F \in Funcs(TheModule) :
          /\ F.Name = last.FnAST.Proto.Name
          /\ F.Args # last.FnAST.Proto.Args
          /\ Len(F.Blocks[1]) = 1
          /\ last.FnAST.Body.kind = "Binary"

----------------------------------------------------------------------------
(* C3 *)

\* a function a definition or an anonymous expression made that is not
\* complete: no block, a block that does not end in a return, or the
\* anonymous function itself
HalfBuilt(F) ==
    \/ F.Name = <<>>
    \/ EndsWith(F.Name, suffix_def) /\ ~HasBody(F)
    \/ /\ HasBody(F)
       /\ \E b \in 1..Len(F.Blocks) :
             \/ F.Blocks[b] = <<>>
             \/ F.Blocks[b][Len(F.Blocks[b])].op # "ret"

\* C3: between top-level constructs the module holds no half-built
\* function, and a construct whose lowering failed leaves the functions of
\* the module as they were.
C3_NoHalfBuiltFunction ==
    /\ \A F \in Funcs(TheModule) : ~HalfBuilt(F)
    /\ (LoweredFunction /\ last.FnIR = 0) => TheModule.funcs = last.before.funcs

\* the body of a definition failed to lower while the module held a function
C3_Witness ==
    /\ last.handler = "HandleDefinition"
    /\ BodyLowered
    /\ last.FnIR = 0
    /\ last.errs > 0
    /\ TheModule.funcs # <<>>

----------------------------------------------------------------------------
(* C4 *)

\* C4: when the body of a function has been lowered, the keys of NamedValues
\* are the parameter names of that function, and nothing else.
C4_SymbolTableIsParameters ==
    BodyLowered =>
        DOMAIN NamedValues =
            {last.FnAST.Proto.Args[i] : i \in 1..Len(last.FnAST.Proto.Args)}

----------------------------------------------------------------------------
(* C5 *)

\* C5: a handler whose parse failed discards one token, by one getNextToken
\* call, before the next dispatch; a handler whose parse succeeded discards
\* none.
C5_ParseFailureSkipsOneToken ==
    (last.handler \in Handlers /\ pc = "loop") =>
        last.skipped = (IF last.parsed THEN 0 ELSE 1)

\* a definition failed to parse, with input left to dispatch on
C5_Witness ==
    /\ last.handler = "HandleDefinition"
    /\ ~last.parsed
    /\ pc = "loop"
    /\ last.skipped = 1
    /\ CurTok # tok_eof

----------------------------------------------------------------------------
(* C6 *)

\* the construct parsed, and its lowering failed
LoweringFailed == LoweredFunction /\ last.FnIR = 0 /\ pc = "loop"

\* C6 as stated: after a failure of the lowering the driver discards one token.
C6_LoweringFailureSkipsOneToken == LoweringFailed => last.skipped = 1

\* C6, amended: a failure of the lowering is reported and the driver
\* discards no token: the dispatch resumes at the token the parser stopped at.
C6_LoweringFailureSkipsNothing ==
    LoweringFailed =>
        /\ last.skipped = 0
        /\ last.errs >= 1
        /\ Lexer(State) = last.parse

\* an anonymous expression failed to lower, with input left to dispatch on
C6_Witness ==
    /\ LoweringFailed
    /\ last.handler = "HandleTopLevelExpression"
    /\ CurTok # tok_eof

----------------------------------------------------------------------------
(* C7 *)

\* the input from where the tokenizer stands, lookahead included
RestOfInput(lx) == IF lx.LastChar = EOF THEN <<>> ELSE <<lx.LastChar>> \o lx.inp

RECURSIVE UpToNewline(_)
UpToNewline(text) ==
    IF text = <<>> \/ Head(text) = "\n" THEN <<>>
    ELSE <<Head(text)>> \o UpToNewline(Tail(text))

RECURSIVE AfterNewline(_)
AfterNewline(text) ==
    IF text = <<>> THEN <<>>
    ELSE IF Head(text) = "\n" THEN Tail(text) ELSE AfterNewline(Tail(text))

\* the lines after the line of the current token
FollowingLines(lx) == AfterNewline(RestOfInput(lx))

\* the current token is the last of its line
LastOnLine(lx) ==
    \A i \in 1..Len(UpToNewline(RestOfInput(lx))) :
        UpToNewline(RestOfInput(lx))[i] \in {" ", "\t", "\r"}

\* the tokenizer stands as it does when the process starts on text
StandsAtStartOf(lx, text) == lx = Lexer(getNextToken(Started(text)))

\* the current token is the first of its line
FirstOnLine(lx) ==
    \E p \in 0..Len(source) :
        /\ p = 0 \/ source[p] = "\n"
        /\ StandsAtStartOf(lx, SubSeq(source, p + 1, Len(source)))

\* the line is one top-level construct that parses, and nothing else
ValidLine(line) ==
    LET s == getNextToken(Started(line))
        r == CASE s.CurTok = tok_def -> ParseDefinition(s)
               [] s.CurTok = tok_extern -> ParseExtern(s)
               [] s.CurTok \in {tok_eof, ";", tok_none} -> Failed(s)
               [] OTHER -> ParseTopLevelExpr(s)
    IN  ~IsNull(r) /\ ~r.st.exited /\ r.st.CurTok = tok_eof

\* the last handler started on the first token of a line, failed to parse
\* it, and the line after it is valid
InvalidThenValidLine ==
    /\ last.handler \in Handlers
    /\ ~last.parsed
    /\ pc = "loop"
    /\ FirstOnLine(last.at)
    /\ ValidLine(UpToNewline(FollowingLines(last.at)))

\* one error, one token discarded, and the program stands where it would
\* stand had the input begun with the following line
SkippedToFollowingLine ==
    /\ last.errs = 1
    /\ last.skipped = 1
    /\ StandsAtStartOf(Lexer(State), FollowingLines(last.at))
    /\ CurTok = tok_identifier =>
          IdentifierStr = getNextToken(Started(FollowingLines(last.at))).IdentifierStr
    /\ CurTok = tok_number =>
          NumVal = getNextToken(Started(FollowingLines(last.at))).NumVal
    /\ TheModule = last.before
    /\ NamedValues = last.NamedValuesBefore

\* C7 as stated: an invalid line followed by a valid one gives one error and
\* one discarded token, after which the valid line is handled as if the
\* invalid one were absent.
C7_InvalidLineSkipped == InvalidThenValidLine => SkippedToFollowingLine

\* the parse failed at the last token of the line it started on
FailedAtEndOfLine ==
    /\ LastOnLine(last.parse)
    /\ FollowingLines(last.parse) = FollowingLines(last.at)

\* C7, amended: an invalid line whose parse fails at the last token of that
\* line, followed by a valid line, gives one error and one discarded token,
\* after which the valid line is handled as if the invalid one were absent.
C7_InvalidLineSkippedAtItsEnd ==
    (InvalidThenValidLine /\ FailedAtEndOfLine) => SkippedToFollowingLine

C7_Witness ==
    /\ InvalidThenValidLine
    /\ FailedAtEndOfLine
    /\ last.handler = "HandleTopLevelExpression"
    /\ CurTok = tok_def

----------------------------------------------------------------------------
(* C8 *)

\* two decimal points with nothing but digits and decimal points between
HasTwoPointRun(text) ==
    \E i, j \in 1..Len(text) :
        /\ i < j
        /\ text[i] = "." /\ text[j] = "."
        /\ \A k \in i..j : text[k] = "." \/ isdigit(text[k])

RECURSIVE StripComments(_, _)
\* text without its line comments: '#' up to the end of the line
StripComments(text, inComment) ==
    IF text = <<>> THEN <<>>
    ELSE IF inComment
    THEN IF Head(text) \in {"\n", "\r"}
         THEN <<Head(text)>> \o StripComments(Tail(text), FALSE)
         ELSE StripComments(Tail(text), TRUE)
    ELSE IF Head(text) = "#" THEN StripComments(Tail(text), TRUE)
    ELSE <<Head(text)>> \o StripComments(Tail(text), FALSE)

\* C8 as stated: the process is terminated by the tokenizer if and only if
\* a maximal run of digits and decimal points of the input has more than one
\* decimal point.
C8_ExitsIffTwoPointRun ==
    pc \in {"done", "exited"} => (pc = "exited" <=> HasTwoPointRun(source))

\* C8, amended: the process is terminated by the tokenizer if and only if a
\* maximal run of digits and decimal points outside the line comments of the
\* input has more than one decimal point; no token is returned then, and
\* any other input is processed to the end of input.
C8_ExitsIffTwoPointRunOutsideComments ==
    /\ pc \in {"done", "exited"} =>
          (pc = "exited" <=> HasTwoPointRun(StripComments(source, FALSE)))
    /\ pc = "exited" => CurTok = tok_none

\* the tokenizer has ended the process on a literal that follows a comment
C8_Witness ==
    /\ pc = "exited"
    /\ \E i, j \in 1..Len(source) : i < j /\ source[i] = "#" /\ source[j] = "\n"

----------------------------------------------------------------------------
(* C9 *)

\* the input is primary (op primary)* with one-character operands
IsFlatExpr(text) ==
    /\ Len(text) % 2 = 1
    /\ \A i \in 1..Len(text) :
          IF i % 2 = 1 THEN isalnum(text[i]) ELSE text[i] \in Operators

\* the last position of text that holds a character of S, 0 if none
LastOf(text, S) ==
    IF \E i \in 1..Len(text) : text[i] \in S
    THEN CHOOSE i \in 1..Len(text) :
            text[i] \in S /\ \A j \in (i + 1)..Len(text) : text[j] \notin S
    ELSE 0

RECURSIVE GrammarTree(_)
\* the tree of the precedence grammar
\*   cmp ::= add | cmp '<' add     add ::= mul | add ('+'|'-') mul
\*   mul ::= primary | mul ('*'|'/') primary
GrammarTree(text) ==
    LET k == IF LastOf(text, {"<"}) > 0 THEN LastOf(text, {"<"})
             ELSE IF LastOf(text, {"+", "-"}) > 0 THEN LastOf(text, {"+", "-"})
             ELSE LastOf(text, {"*", "/"})
    IN  IF k = 0
        THEN IF isdigit(text[1]) THEN NumberExprAST(strtod(text))
             ELSE VariableExprAST(text)
        ELSE BinaryExprAST(text[k], GrammarTree(SubSeq(text, 1, k - 1)),
                           GrammarTree(SubSeq(text, k + 1, Len(text))))

\* C9: on primary (op primary)* ParseExpression returns the tree of the
\* precedence grammar, and has read the whole expression.
C9_ParsesAsPrecedenceGrammar ==
    (last.handler = "HandleTopLevelExpression" /\ IsFlatExpr(source)) =>
        /\ last.parsed
        /\ last.FnAST.Body = GrammarTree(source)
        /\ last.parse.CurTok = tok_eof

\* 1+2*3 = +(1,*(2,3)), in an expression that goes on
C9_Witness ==
    /\ last.handler = "HandleTopLevelExpression"
    /\ IsFlatExpr(source)
    /\ Len(source) = 7
    /\ last.FnAST.Body.Op = "+"
    /\ last.FnAST.Body.LHS.kind = "Binary"
    /\ last.FnAST.Body.LHS.Op = "+"
    /\ last.FnAST.Body.LHS.RHS.kind = "Binary"
    /\ last.FnAST.Body.LHS.RHS.Op = "*"

----------------------------------------------------------------------------
(* C10 *)

\* the function of that id
Fn(M, id) == CHOOSE F \in Funcs(M) : F.id = id

----------------------------------------------------------------------------
(* C11 *)

\* the names the arguments of a function of these parameters go by
ArgNamesOf(Proto) ==
    LET Named == SetArgNames(Proto.Args, 1, <<>>, 0)
    IN  {Named[j] : j \in 1..Len(Named)}

\* the parameter counts of the functions a callee name finds while the body
\* of FnAST is lowered: those of the module before, and FnAST itself
Callable(M, FnAST, Callee) ==
    {Len(F.Args) : F \in {G \in Funcs(M) : G.Name = Callee}}
        \cup (IF FnAST.Proto.Name = Callee THEN {Len(FnAST.Proto.Args)} ELSE {})

RECURSIVE Reported(_, _, _, _), ReportedArgs(_, _, _, _, _)
\* the messages the lowering of expression e in the body of FnAST prints, by the
\* structure of e.  stopAtLeft: a binary operation whose left operand failed
\* does not lower its right operand.
Reported(e, M, FnAST, stopAtLeft) ==
    CASE e.kind = "Number" -> <<>>
      [] e.kind = "Variable" ->
            IF e.Name \in ArgNamesOf(FnAST.Proto) THEN <<>> ELSE <<"Unknown variable name">>
      [] e.kind = "Binary" ->
            LET l == Reported(e.LHS, M, FnAST, stopAtLeft)
            IN  IF stopAtLeft /\ l # <<>> THEN l
                ELSE l \o Reported(e.RHS, M, FnAST, stopAtLeft)
      [] e.kind = "Call" ->
            IF Callable(M, FnAST, e.Callee) = {} THEN <<"Unknown function referenced">>
            ELSE IF Len(e.Args) \notin Callable(M, FnAST, e.Callee)
            THEN <<"Incorrect # arguments passed">>
            ELSE ReportedArgs(e.Args, 1, M, FnAST, stopAtLeft)

\* the arguments of a call are lowered in order up to the first that fails
ReportedArgs(Args, i, M, FnAST, stopAtLeft) ==
    IF i > Len(Args) THEN <<>>
    ELSE LET a == Reported(Args[i], M, FnAST, stopAtLeft)
         IN  IF a # <<>> THEN a ELSE ReportedArgs(Args, i + 1, M, FnAST, stopAtLeft)

\* the last handler lowered a function whose body is a binary operation
BinaryBodyLowered == BodyLowered /\ last.FnAST.Body.kind = "Binary"

\* C11 as claimed: the operands of a binary operation are lowered left then
\* right, a failed left operand keeps the right operand from being lowered
\* (nothing is reported for it), and after a failure of either operand no
\* function holding the operator comes out.
C11_FailedLeftShortCircuits ==
    BinaryBodyLowered =>
        /\ Messages = Reported(last.FnAST.Body, last.before, last.FnAST, TRUE)
        /\ Messages # <<>> => (last.FnIR = 0 /\ TheModule.funcs = last.before.funcs)

\* C11 as the code has it: both operands of a binary operation are always
\* lowered, left then right, so the errors of the right operand are reported
\* after those of a failed left operand; after a failure of either operand
\* no function holding the operator comes out.
C11_BothOperandsLowered ==
    BinaryBodyLowered =>
        /\ Messages = Reported(last.FnAST.Body, last.before, last.FnAST, FALSE)
        /\ Messages # <<>> => (last.FnIR = 0 /\ TheModule.funcs = last.before.funcs)

\* y+g() in a function of x: the left operand failed and the right operand
\* was lowered and reported after it
C11_Witness ==
    /\ BinaryBodyLowered
    /\ last.FnAST.Body.LHS.kind = "Variable"
    /\ last.FnAST.Body.RHS.kind = "Call"
    /\ Messages = <<"Unknown variable name", "Unknown function referenced">>
    /\ last.FnIR = 0

----------------------------------------------------------------------------
(* C12 *)

\* the input has no numeric literal with more than one decimal point
WellFormedNumbers == ~HasTwoPointRun(StripComments(source, FALSE))

\* the last step was an iteration of the loop of MainLoop that saw a token
\* other than the end of input
Iterated == last.handler \in Handlers \cup {"semicolon"}

\* the iteration read at least one token, and left less input than it found
\* or reached the end of input
Advanced ==
    /\ last.tokens >= 1
    /\ \/ Len(RestOfInput(Lexer(State))) < Len(RestOfInput(last.at))
       \/ CurTok = tok_eof

\* C12: on an input without a malformed numeric literal, every iteration of
\* the top-level loop that does not see the end of input consumes at least one
\* token, whether the construct parsed, failed to parse or failed to lower;
\* the loop reaches the end-of-input token and returns; and once gettok has
\* returned the end of input it returns it on every later call, consuming
\* nothing.
C12_ForwardProgress ==
    /\ []((WellFormedNumbers /\ Iterated) => Advanced)
    /\ [](WellFormedNumbers => <>(pc = "done" /\ CurTok = tok_eof))
    /\ [](CurTok = tok_eof => gettok(State) = [st |-> State, tok |-> tok_eof])
    /\ []((Iterated /\ last.parse.CurTok = tok_eof) => CurTok = tok_eof)

\* the loop has returned after an iteration that failed to parse and one that
\* failed to lower
C12_Witness ==
    /\ pc = "done"
    /\ WellFormedNumbers
    /\ \E i, j \in 1..Len(out) :
          /\ out[i] = "Unknown token when expecting an expression"
          /\ out[j] = "Unknown variable name"

----------------------------------------------------------------------------
(* C13 *)

\* a name as ParsePrototype registers it: an identifier and _def or _ext,
\* with the .N of the module's symbol table when the name was taken
Mangled(Name) ==
    \E k \in 1..Len(Name) :
        /\ \/ EndsWith(SubSeq(Name, 1, k), suffix_def)
           \/ EndsWith(SubSeq(Name, 1, k), suffix_ext)
        /\ k > Len(suffix_def)
        /\ \A j \in 1..(k - Len(suffix_def)) : isalnum(Name[j])
        /\ k < Len(Name) =>
              /\ Name[k + 1] = "." /\ k + 1 < Len(Name)
              /\ \A j \in (k + 2)..Len(Name) : isdigit(Name[j])

RECURSIVE Calls(_), CallsOfArgs(_, _), LoweredCalls(_)
\* the Call nodes of an expression
Calls(e) ==
    CASE e.kind = "Binary" -> Calls(e.LHS) \cup Calls(e.RHS)
      [] e.kind = "Call" -> {e} \cup CallsOfArgs(e.Args, 1)
      [] OTHER -> {}

CallsOfArgs(Args, i) ==
    IF i > Len(Args) THEN {} ELSE Calls(Args[i]) \cup CallsOfArgs(Args, i + 1)

\* the number of Call nodes of an expression that are no argument of a call:
\* the operands of a binary operation are all lowered, the arguments of a
\* call only once its callee is found
LoweredCalls(e) ==
    CASE e.kind = "Binary" -> LoweredCalls(e.LHS) + LoweredCalls(e.RHS)
      [] e.kind = "Call" -> 1
      [] OTHER -> 0

\* how many of the messages of the last handler are Str
Count(Str) == Cardinality({i \in 1..Len(Messages) : Messages[i] = Str})

\* the instructions of the functions of a module
Instructions(M) ==
    UNION {UNION {{F.Blocks[b][n] : n \in 1..Len(F.Blocks[b])} : b \in 1..Len(F.Blocks)}
              : F \in Funcs(M)}

\* C13: no call ever resolves its callee.  The callee of a Call node is an
\* identifier of letters and digits, every function of the module has the
\* empty name or a name with the _def or _ext suffix, so every call that is
\* lowered fails with "Unknown function referenced": no function comes out
\* of a construct with a call, no call instruction is ever emitted and the
\* number of arguments is never found wrong.
C13_NoCallResolves ==
    /\ \A F \in Funcs(TheModule) : F.Name = <<>> \/ Mangled(F.Name)
    /\ \A I \in Instructions(TheModule) : I.op # "call"
    /\ \A i \in 1..Len(out) : out[i] # "Incorrect # arguments passed"
    /\ BodyLowered =>
          /\ \A c \in Calls(last.FnAST.Body) :
                c.Callee # <<>> /\ \A j \in 1..Len(c.Callee) : isalnum(c.Callee[j])
          /\ Count("Unknown function referenced") = LoweredCalls(last.FnAST.Body)
          /\ LoweredCalls(last.FnAST.Body) > 0 => last.FnIR = 0

\* a call of a name that extern or def declared earlier with as many
\* parameters as the call has arguments has failed to find it
C13_Witness ==
    /\ BodyLowered
    /\ last.FnAST.Body.kind = "Call"
    /\ Len(last.FnAST.Body.Args) \in DeclaredArities(last.before, last.FnAST.Body.Callee)
    /\ Messages = <<"Unknown function referenced">>
    /\ last.FnIR = 0

====
